---- MODULE Spec2Model ----
(***************************************************************************)
(* Model of rplugin/python3/defx/view.py (class View): the aggregated      *)
(* candidate list, the selection list, the per-session cursor history and  *)
(* the host buffers the View writes to.                                    *)
(*                                                                         *)
(* Conventions.  Python dicts are records; the empty dict {} is <<>> and   *)
(* a missing key is tested with HasKey.  A Python exception is the field   *)
(* `raised` of the returned view record ("" = returned normally): the      *)
(* assignments made before the raise are kept, as in Python.  Python list  *)
(* indices are 0-based, TLA+ sequences 1-based: lst[x] is written          *)
(* lst[x + 1].                                                             *)
(***************************************************************************)
EXTENDS Integers, Sequences, FiniteSets, TLC

\* ------------------------------------------------------------------ bounds
MaxSelected == 2    \* at most this many entries in _selected_candidates
MaxOps == 3         \* at most this many operations after construction
MaxWidth == 8       \* a column reports a length of at most this many cells

\* ------------------------------------------------- the tree the sessions show
Dirs == {"/a", "/b"}
Files == <<"/a/1", "/a/2", "/b/1">>
Parent(f) == IF f \in {"/a/1", "/a/2"} THEN "/a" ELSE "/b"
FileSet == {Files[i] : i \in 1..Len(Files)}
Paths == Dirs \cup FileSet
\* a path that is not a directory: the Tree Session rejects it
MissingDir == "/x"
NoPath == ""
EmptyDict == <<>>
HasKey(d, k) == k \in DOMAIN d

\* ----------------------------------------------------------- host surfaces
Surfaces == {"defx", "other"}
OtherText == <<"t1", "t2">>
\* buffer option 'filetype' of a surface: init_buffer sets 'defx' on the
\* View's own buffer; every other buffer is assumed to have another filetype
filetype(surface) == IF surface = "defx" THEN "defx" ELSE "text"
\* a Vim buffer always has at least one line
NumLines(lines) == IF Len(lines) = 0 THEN 1 ELSE Len(lines)
Clamp(n, lines) == IF n > NumLines(lines) THEN NumLines(lines) ELSE n

VARIABLES
    candidates,             \* View._candidates
    selected_candidates,    \* View._selected_candidates
    defxs,                  \* View._defxs: index, _cwd, _cursor_history
    buffer,                 \* lines of every host buffer
    cursor,                 \* cursor line of every host window
    current,                \* the host's current surface
    fs,                     \* files that exist now
    last,                   \* the last operation, its inputs and outcome
    trip,                   \* progress of a navigate / navigate-back pair
    ops,                    \* operations since construction
    colspan                 \* the column loop of __init__: start, _columns

vars == <<candidates, selected_candidates, defxs, buffer, cursor, current,
          fs, last, trip, ops, colspan>>

\* the View and its host as one value, so that a method can call another
View == [candidates |-> candidates, selected |-> selected_candidates,
         defxs |-> defxs, buffer |-> buffer, cursor |-> cursor,
         current |-> current, fs |-> fs, raised |-> "", queried |-> FALSE]

\* ------------------------------------------------------------ Tree Session
Defx(path, index) ==
    [index |-> index, cwd |-> path,
     cursor_history |-> [d \in Dirs |-> NoPath]]

get_root_candidate(defx) ==
    [action__path |-> defx.cwd, is_selected |-> FALSE]

gather_candidates(defx, files) ==
    LET shown == SelectSeq(Files, LAMBDA f : f \in files /\ Parent(f) = defx.cwd)
    IN  [i \in 1..Len(shown) |-> [action__path |-> shown[i], is_selected |-> FALSE]]

\* Defx.cd accepts a directory and rejects anything else
defx_cd_ok(path) == path \in Dirs

\* ------------------------------------------------------------------ columns
Mark_get(candidate) == IF candidate.is_selected THEN "*" ELSE " "
Filename_get(candidate) == candidate.action__path
columns == <<"mark", "filename">>
column_get(name, candidate) ==
    IF name = "mark" THEN Mark_get(candidate) ELSE Filename_get(candidate)

\* the state of the loop of lines 38-44: the lengths the columns report, the
\* number of columns already appended, the local start and their spans
columns_begin(lengths) ==
    [lengths |-> lengths, k |-> 0, start |-> 1, spans |-> <<>>]

\* a loop body whose end is one past the column's last cell
column_step_end_exclusive(c) ==
    LET length == c.lengths[c.k + 1]
    IN  [c EXCEPT !.spans = Append(@, [start |-> c.start,
                                        end |-> c.start + length]),
                  !.start = c.start + length,
                  !.k = c.k + 1]

\* one iteration: column.start, column.end, start += column.length()
column_step(c) ==
    LET length == c.lengths[c.k + 1]
    IN  [c EXCEPT !.spans = Append(@, [start |-> c.start,
                                        end |-> c.start + length - 1]),
                  !.start = c.start + length,
                  !.k = c.k + 1]

RECURSIVE init_columns(_)
init_columns(c) ==
    IF c.k = Len(c.lengths) THEN c ELSE init_columns(column_step(c))

\* Mark.length() and Filename.length() of the rows the model renders
ColumnLengths == [i \in 1..Len(columns) |-> 1]

get_columns_text(candidate) ==
    [i \in 1..Len(columns) |-> column_get(columns[i], candidate)]

\* ---------------------------------------------------------- init_candidates
\* candidate['_defx_index'] = defx._index
tag(candidate, index) ==
    [action__path |-> candidate.action__path,
     is_selected |-> candidate.is_selected,
     defx_index |-> index]

\* an aggregation that puts the root row after the gathered rows
defx_rows_root_last(defx, files) ==
    LET own == gather_candidates(defx, files) \o <<get_root_candidate(defx)>>
    IN  [i \in 1..Len(own) |-> tag(own[i], defx.index)]

defx_rows(defx, files) ==
    LET own == <<get_root_candidate(defx)>> \o gather_candidates(defx, files)
    IN  [i \in 1..Len(own) |-> tag(own[i], defx.index)]

RECURSIVE concat_rows(_, _, _)
concat_rows(ds, files, k) ==
    IF k > Len(ds) THEN <<>>
    ELSE defx_rows(ds[k], files) \o concat_rows(ds, files, k + 1)

\* for index in self._selected_candidates:
\*     self._candidates[index]['is_selected'] = True
RECURSIVE set_is_selected(_, _, _)
set_is_selected(v, sel, k) ==
    IF k > Len(sel) THEN v
    ELSE IF sel[k] + 1 > Len(v.candidates)
         THEN [v EXCEPT !.raised = "IndexError"]
         ELSE set_is_selected(
                  [v EXCEPT !.candidates[sel[k] + 1].is_selected = TRUE],
                  sel, k + 1)

init_candidates(v) ==
    LET v1 == [v EXCEPT !.candidates = concat_rows(v.defxs, v.fs, 1),
                        !.queried = TRUE]
    IN  set_is_selected(v1, v1.selected, 1)

\* ------------------------------------------------------ get_cursor_candidate
get_cursor_candidate(cands, line) ==
    IF Len(cands) < line THEN EmptyDict ELSE cands[line]

\* -------------------------------------------------------------- search_file
\* a scan that compares the path only
RECURSIVE scan_any_owner(_, _, _, _)
scan_any_owner(cands, path, index, linenr) ==
    IF linenr > Len(cands) THEN 0
    ELSE IF cands[linenr].action__path = path
         THEN linenr
         ELSE scan_any_owner(cands, path, index, linenr + 1)

RECURSIVE scan(_, _, _, _)
scan(cands, path, index, linenr) ==
    IF linenr > Len(cands) THEN 0
    ELSE IF cands[linenr].defx_index = index /\ cands[linenr].action__path = path
         THEN linenr
         ELSE scan(cands, path, index, linenr + 1)

\* the line search_file finds, 0 when it finds none
locate(cands, path, index) == scan(cands, path, index, 1)

\* self._vim.call('cursor', [linenr, 1]) acts on the current window
vim_cursor(v, linenr) ==
    [v EXCEPT !.cursor[v.current] = Clamp(linenr, v.buffer[v.current])]

search_file(v, path, index) ==
    LET linenr == locate(v.candidates, path, index)
    IN  IF linenr = 0 THEN v ELSE vim_cursor(v, linenr)

\* ------------------------------------------------------------------- redraw
\* self._vim.current.buffer[:] = [...]; the host keeps the cursor on a line
\* of the buffer
\* a write that appends the lines to those the buffer already has
set_buffer_appending(v, lines) ==
    [v EXCEPT !.buffer[v.current] = v.buffer[v.current] \o lines,
              !.cursor[v.current] = Clamp(v.cursor[v.current],
                                          v.buffer[v.current] \o lines)]

set_buffer(v, lines) ==
    [v EXCEPT !.buffer[v.current] = lines,
              !.cursor[v.current] = Clamp(v.cursor[v.current], lines)]

clear_selected(v) == [v EXCEPT !.selected = <<>>]

\* a rebuild that forgets line 122
rebuild_keeps_selection(v) == init_candidates(v)

rebuild(v) == init_candidates(clear_selected(v))

\* a redraw that forgets the guard of lines 115-117
is_own_surface_always(v) == TRUE

is_own_surface(v) == filetype(v.current) = "defx"

\* a redraw that rebuilds whatever is_force says
redraw_always_forced(v, is_force) ==
    IF ~is_own_surface(v) THEN v
    ELSE LET prev == get_cursor_candidate(v.candidates, v.cursor[v.current])
             v1 == rebuild(v)
             v2 == set_buffer(v1, [i \in 1..Len(v1.candidates) |->
                                      get_columns_text(v1.candidates[i])])
         IN  IF v1.raised # "" THEN v1
             ELSE IF prev # EmptyDict
                  THEN search_file(v2, prev.action__path, prev.defx_index)
                  ELSE v2

\* a redraw that forgets lines 133-134
redraw_without_recovery(v, is_force) ==
    IF ~is_own_surface(v) THEN v
    ELSE LET v1 == IF is_force THEN rebuild(v) ELSE v
         IN  IF v1.raised # "" THEN v1
             ELSE set_buffer(v1, [i \in 1..Len(v1.candidates) |->
                                     get_columns_text(v1.candidates[i])])

redraw(v, is_force) ==
    IF ~is_own_surface(v) THEN v
    ELSE LET prev == get_cursor_candidate(v.candidates, v.cursor[v.current])
             v1 == IF is_force THEN rebuild(v) ELSE v
             v2 == set_buffer(v1, [i \in 1..Len(v1.candidates) |->
                                      get_columns_text(v1.candidates[i])])
         IN  IF v1.raised # "" THEN v1
             ELSE IF prev # EmptyDict
                  THEN search_file(v2, prev.action__path, prev.defx_index)
                  ELSE v2

\* -------------------------------------------------- get_selected_candidates
\* [self._candidates[x] for x in self._selected_candidates]
picked(cands, sel) ==
    IF sel = <<>> THEN <<>> ELSE [i \in 1..Len(sel) |-> cands[sel[i] + 1]]

\* a selection lookup that forgets the owner filter of line 155
get_selected_candidates_unfiltered(cands, sel, line, index) ==
    IF sel = <<>>
    THEN LET c == get_cursor_candidate(cands, line)
         IN  IF ~HasKey(c, "defx_index")
             THEN [raised |-> "KeyError", value |-> <<>>]
             ELSE [raised |-> "", value |-> <<c>>]
    ELSE IF \E i \in 1..Len(sel) : sel[i] + 1 > Len(cands)
         THEN [raised |-> "IndexError", value |-> <<>>]
         ELSE [raised |-> "", value |-> picked(cands, sel)]

get_selected_candidates(cands, sel, line, index) ==
    IF sel = <<>>
    THEN LET c == get_cursor_candidate(cands, line)
         IN  IF ~HasKey(c, "defx_index")
             THEN [raised |-> "KeyError", value |-> <<>>]
             ELSE [raised |-> "",
                   value |-> IF c.defx_index = index THEN <<c>> ELSE <<>>]
    ELSE IF \E i \in 1..Len(sel) : sel[i] + 1 > Len(cands)
         THEN [raised |-> "IndexError", value |-> <<>>]
         ELSE [raised |-> "",
               value |-> SelectSeq(picked(cands, sel),
                                   LAMBDA x : x.defx_index = index)]

\* ----------------------------------------------------------------------- cd
\* a save that writes the entry into the history of every session
save_history_every_session(v, s, line) ==
    [v EXCEPT !.defxs = [k \in 1..Len(v.defxs) |->
        [v.defxs[k] EXCEPT !.cursor_history[v.defxs[s].cwd] =
            get_cursor_candidate(v.candidates, line).action__path]]]

\* a save that records the directory left instead of the row under the cursor
save_history_root(v, s, line) ==
    [v EXCEPT !.defxs[s].cursor_history[v.defxs[s].cwd] = v.defxs[s].cwd]

save_history(v, s, line) ==
    [v EXCEPT !.defxs[s].cursor_history[v.defxs[s].cwd] =
                  get_cursor_candidate(v.candidates, line).action__path]

defx_cd(v, s, path) ==
    IF defx_cd_ok(path) THEN [v EXCEPT !.defxs[s].cwd = path]
    ELSE [v EXCEPT !.raised = "RootChangeFailure"]

restore_history(v, s, path) ==
    IF v.defxs[s].cursor_history[path] # NoPath
    THEN search_file(v, v.defxs[s].cursor_history[path], v.defxs[s].index)
    ELSE v

\* a cd that looks up the history (lines 164-165) before it redraws
cd_restores_before_redraw(v, s, path, line) ==
    IF ~HasKey(get_cursor_candidate(v.candidates, line), "action__path")
    THEN [v EXCEPT !.raised = "KeyError"]
    ELSE LET v1 == save_history(v, s, line)
             v2 == defx_cd(v1, s, path)
             v3 == restore_history(v2, s, path)
             v4 == redraw(v3, TRUE)
         IN  IF v2.raised # "" THEN v2
             ELSE IF v4.raised # "" THEN v4
             ELSE clear_selected(v4)

\* a cd that forgets line 166
cd_keeps_selection(v, s, path, line) ==
    IF ~HasKey(get_cursor_candidate(v.candidates, line), "action__path")
    THEN [v EXCEPT !.raised = "KeyError"]
    ELSE LET v1 == save_history(v, s, line)
             v2 == defx_cd(v1, s, path)
             v3 == redraw(v2, TRUE)
             v4 == restore_history(v3, s, path)
         IN  IF v2.raised # "" THEN v2
             ELSE IF v3.raised # "" THEN v3
             ELSE v4

cd(v, s, path, line) ==
    IF ~HasKey(get_cursor_candidate(v.candidates, line), "action__path")
    THEN [v EXCEPT !.raised = "KeyError"]
    ELSE LET v1 == save_history(v, s, line)
             v2 == defx_cd(v1, s, path)
             v3 == redraw(v2, TRUE)
             v4 == restore_history(v3, s, path)
         IN  IF v2.raised # "" THEN v2
             ELSE IF v3.raised # "" THEN v3
             ELSE clear_selected(v4)

\* ---------------------------------------------------------------- do_action
\* the sessions the Action Dispatcher is invoked for, in call order; its
\* return value is discarded by the loop
\* a loop that forgets the `continue` of lines 190-191
RECURSIVE dispatch_loop_all(_, _, _, _)
dispatch_loop_all(v, line, k, invoked) ==
    IF k > Len(v.defxs) THEN [raised |-> "", invoked |-> invoked]
    ELSE LET targets == get_selected_candidates(v.candidates, v.selected,
                                                line, v.defxs[k].index)
         IN  IF targets.raised # ""
             THEN [raised |-> targets.raised, invoked |-> invoked]
             ELSE dispatch_loop_all(v, line, k + 1,
                                    Append(invoked, v.defxs[k].index))

RECURSIVE dispatch_loop(_, _, _, _)
dispatch_loop(v, line, k, invoked) ==
    IF k > Len(v.defxs) THEN [raised |-> "", invoked |-> invoked]
    ELSE LET targets == get_selected_candidates(v.candidates, v.selected,
                                                line, v.defxs[k].index)
         IN  IF targets.raised # ""
             THEN [raised |-> targets.raised, invoked |-> invoked]
             ELSE IF targets.value = <<>>
                  THEN dispatch_loop(v, line, k + 1, invoked)
                  ELSE dispatch_loop(v, line, k + 1,
                                     Append(invoked, v.defxs[k].index))

\* a do_action that looks up the row under the cursor before line 182
do_action_reads_cursor_first(v, line) ==
    IF ~HasKey(get_cursor_candidate(v.candidates, line), "defx_index")
    THEN [raised |-> "KeyError", invoked |-> <<>>]
    ELSE dispatch_loop(v, line, 1, <<>>)

do_action(v, line) ==
    IF v.candidates = <<>> THEN [raised |-> "", invoked |-> <<>>]
    ELSE dispatch_loop(v, line, 1, <<>>)

\* ----------------------------------------------------------------- __init__
\* a loop that stops at the first session in which the path is found
RECURSIVE search_all_first_found(_, _, _)
search_all_first_found(v, path, k) ==
    IF k > Len(v.defxs) THEN v
    ELSE IF locate(v.candidates, path, v.defxs[k].index) # 0
         THEN search_file(v, path, v.defxs[k].index)
         ELSE search_all_first_found(v, path, k + 1)

RECURSIVE search_all(_, _, _)
search_all(v, path, k) ==
    IF k > Len(v.defxs) THEN v
    ELSE search_all(search_file(v, path, v.defxs[k].index), path, k + 1)

\* init_buffer edits '[defx]': the new buffer is empty and current
init_buffer(v) ==
    [v EXCEPT !.current = "defx", !.buffer["defx"] = <<>>, !.cursor["defx"] = 1]

\* lines 22-32: empty lists and one Defx per path
blank(paths, files) ==
    [candidates |-> <<>>, selected |-> <<>>,
     defxs |-> [i \in 1..Len(paths) |-> Defx(paths[i], i - 1)],
     buffer |-> [sf \in Surfaces |-> IF sf = "other" THEN OtherText ELSE <<>>],
     cursor |-> [sf \in Surfaces |-> 1],
     current |-> "other", fs |-> files,
     raised |-> "", queried |-> FALSE]

construct(paths, search, files) ==
    LET v0 == blank(paths, files)
        v1 == redraw(init_buffer(v0), TRUE)
    IN  IF search # NoPath THEN search_all(v1, search, 1) ELSE v1

\* the lists of root paths View() is constructed with
RootPaths == {<<>>, <<"/a">>, <<"/a", "/b">>, <<"/a", "/a">>}
SearchPaths == {NoPath, "/a/1", "/b"}

\* ------------------------------------------------------------------ actions
Install(v) ==
    /\ candidates' = v.candidates
    /\ selected_candidates' = v.selected
    /\ defxs' = v.defxs
    /\ buffer' = v.buffer
    /\ cursor' = v.cursor
    /\ current' = v.current
    /\ fs' = v.fs

NoTrip == [stage |-> "none"]

Tick == ops < MaxOps /\ ops' = ops + 1 /\ UNCHANGED colspan

Init ==
    \E paths \in RootPaths, search \in SearchPaths :
        LET v == construct(paths, search, FileSet)
        IN  /\ candidates = v.candidates
            /\ selected_candidates = v.selected
            /\ defxs = v.defxs
            /\ buffer = v.buffer
            /\ cursor = v.cursor
            /\ current = v.current
            /\ fs = v.fs
            /\ colspan = init_columns(columns_begin(ColumnLengths))
            /\ last = [op |-> "init", search |-> search, raised |-> v.raised,
                       queried |-> v.queried]
            /\ trip = NoTrip
            /\ ops = 0

\* lines a caller passes as the cursor: the line the host's cursor is on, or
\* a line past the last row (a line number that is no longer valid)
Lines == {cursor[current], Len(candidates) + 1}

\* the action 'redraw' and the FocusGained autocmd
Redraw(is_force) ==
    LET v == redraw(View, is_force)
    IN  /\ Tick
        /\ Install(v)
        /\ last' = [op |-> "redraw", is_force |-> is_force,
                    nsel |-> Len(selected_candidates),
                    prev |-> get_cursor_candidate(candidates, cursor[current]),
                    from |-> cursor[current],
                    raised |-> v.raised, queried |-> v.queried]
        /\ trip' = NoTrip

Cd(s, path, line) ==
    LET v == cd(View, s, path, line)
        old == defxs[s].cwd
        prevpath == IF line <= Len(candidates)
                    THEN candidates[line].action__path ELSE NoPath
    IN  /\ Tick
        /\ Install(v)
        /\ last' = [op |-> "cd", s |-> s, old |-> old, path |-> path,
                    beyond |-> (line > Len(candidates)),
                    linepath |-> prevpath,
                    nsel |-> Len(selected_candidates),
                    prev |-> get_cursor_candidate(candidates, cursor[current]),
                    raised |-> v.raised, queried |-> v.queried]
        /\ trip' = IF v.raised # "" THEN NoTrip
                   ELSE IF trip.stage = "away" /\ trip.s = s /\ trip.A = path
                        THEN [stage |-> "back", s |-> s, A |-> trip.A,
                              B |-> trip.B, p |-> trip.p]
                   ELSE IF path # old
                        THEN [stage |-> "away", s |-> s, A |-> old,
                              B |-> path, p |-> prevpath]
                   ELSE NoTrip

DoAction(line) ==
    LET r == do_action(View, line)
    IN  /\ Tick
        /\ last' = [op |-> "do_action", line |-> line,
                    raised |-> r.raised, invoked |-> r.invoked]
        /\ trip' = NoTrip
        /\ UNCHANGED <<candidates, selected_candidates, defxs, buffer,
                       cursor, current, fs>>

SearchFile(path, index) ==
    LET v == search_file(View, path, index)
    IN  /\ Tick
        /\ Install(v)
        /\ last' = [op |-> "search_file", path |-> path, index |-> index,
                    unmoved |-> (v.cursor = cursor)]
        /\ trip' = NoTrip

\* the selection is written outside view.py (a toggle of one row); the
\* entries are indices into _candidates, as view.py reads them
Select(x) ==
    /\ Tick
    /\ current = "defx"
    /\ x \in 0..(Len(candidates) - 1)
    /\ IF \E i \in 1..Len(selected_candidates) : selected_candidates[i] = x
       THEN selected_candidates' = SelectSeq(selected_candidates, LAMBDA y : y # x)
       ELSE /\ Len(selected_candidates) < MaxSelected
            /\ selected_candidates' = Append(selected_candidates, x)
    /\ last' = [op |-> "select"]
    /\ trip' = NoTrip
    /\ UNCHANGED <<candidates, defxs, buffer, cursor, current, fs>>

\* a navigate / navigate-back pair may have cursor movement in between
KeepTrip == trip' = IF trip.stage = "away" THEN trip ELSE NoTrip

\* the user moves the cursor of the current window
MoveCursor(line) ==
    /\ Tick
    /\ line \in 1..NumLines(buffer[current])
    /\ line # cursor[current]
    /\ cursor' = [cursor EXCEPT ![current] = line]
    /\ last' = [op |-> "move"]
    /\ KeepTrip
    /\ UNCHANGED <<candidates, selected_candidates, defxs, buffer, current, fs>>

\* the user makes the other surface current
SwitchSurface ==
    /\ Tick
    /\ current' = IF current = "defx" THEN "other" ELSE "defx"
    /\ last' = [op |-> "switch"]
    /\ KeepTrip
    /\ UNCHANGED <<candidates, selected_candidates, defxs, buffer, cursor, fs>>

\* a file is created or deleted under a session's feet
FsChange(f) ==
    /\ Tick
    /\ fs' = IF f \in fs THEN fs \ {f} ELSE fs \cup {f}
    /\ last' = [op |-> "fs"]
    /\ KeepTrip
    /\ UNCHANGED <<candidates, selected_candidates, defxs, buffer, cursor,
                   current>>

Next ==
    \/ \E is_force \in BOOLEAN : Redraw(is_force)
    \/ \E s \in 1..Len(defxs), path \in Dirs \cup {MissingDir}, line \in Lines :
           Cd(s, path, line)
    \/ \E line \in Lines : DoAction(line)
    \/ \E path \in Paths, index \in 0..(Len(defxs) - 1) : SearchFile(path, index)
    \/ \E x \in 0..(Len(candidates) - 1) : Select(x)
    \/ \E line \in 1..NumLines(buffer[current]) : MoveCursor(line)
    \/ SwitchSurface
    \/ \E f \in FileSet : FsChange(f)

Spec == Init /\ [][Next]_vars

\* ------------------------------------------------------- shared definitions
DefxIndices == {defxs[k].index : k \in 1..Len(defxs)}
Rows == 1..Len(candidates)
IsRow(cands, line, path, index) ==
    /\ line \in 1..Len(cands)
    /\ cands[line].action__path = path
    /\ cands[line].defx_index = index

\* the selection only ever holds indices of rows of _candidates
SelectionInRange ==
    \A i \in 1..Len(selected_candidates) :
        selected_candidates[i] + 1 \in Rows

\* the host keeps every cursor on a line of its buffer
CursorOnBuffer ==
    \A sf \in Surfaces : cursor[sf] \in 1..NumLines(buffer[sf])

\* the result of the single-cursor path of get_selected_candidates: the row
\* at `line` if session `index` owns it
CursorOnly(line, index) ==
    IF candidates[line].defx_index = index THEN <<candidates[line]>> ELSE <<>>

SingleCursorPath ==
    \A line \in Rows, index \in DefxIndices :
        get_selected_candidates(candidates, selected_candidates, line, index)
            = [raised |-> "", value |-> CursorOnly(line, index)]

ForcedRedraw == last.op = "redraw" /\ last.is_force

\* C1, as stated: after every redraw(True) the selection list is empty and
\* get_selected_candidates yields only the row under the cursor, filtered by
\* owner.
C1_ForcedRedrawAlwaysClears ==
    ForcedRedraw => selected_candidates = <<>> /\ SingleCursorPath

\* C1, amended: after a redraw(True) made while the browser's buffer is the
\* current one, the selection list is empty and get_selected_candidates, for
\* every row and session, yields only that row, filtered by owner.
C1_ForcedRedrawOnOwnSurfaceClears ==
    (ForcedRedraw /\ current = "defx")
        => selected_candidates = <<>> /\ SingleCursorPath

C1_Witness ==
    /\ ForcedRedraw
    /\ current = "defx"
    /\ last.nsel > 0
    /\ Len(defxs) > 1
    /\ selected_candidates = <<>>

\* the row session s shows for path p now, in a sequence built from the
\* sessions' present state
Fresh == concat_rows(defxs, fs, 1)
Emits(s, p) ==
    \E line \in 1..Len(Fresh) : IsRow(Fresh, line, p, defxs[s].index)
LowestLine(cands, p, index) ==
    CHOOSE line \in 1..Len(cands) :
        /\ IsRow(cands, line, p, index)
        /\ \A j \in 1..(line - 1) : ~IsRow(cands, j, p, index)

RoundTripDone == trip.stage = "back" /\ last.op = "cd"

\* C2, as stated: cd(s, B) then cd(s, A), started at root A with the cursor on
\* a row of path p, ends with the browser's cursor on the line of (p, s) in
\* the rebuilt sequence whenever session s still shows p.
C2_RoundTripRestoresCursor ==
    (RoundTripDone /\ Emits(trip.s, trip.p))
        => cursor["defx"] = LowestLine(Fresh, trip.p, defxs[trip.s].index)

\* C2, amended: the same, provided the browser's buffer is the current one
\* when cd(s, A) runs (otherwise nothing is rebuilt); the sequence the cursor
\* is placed in is then the rebuilt _candidates.
C2_RoundTripRestoresCursorOnOwnSurface ==
    (RoundTripDone /\ current = "defx" /\ Emits(trip.s, trip.p))
        => /\ candidates = Fresh
           /\ cursor["defx"] = LowestLine(candidates, trip.p, defxs[trip.s].index)

C2_Witness ==
    /\ RoundTripDone
    /\ current = "defx"
    /\ Emits(trip.s, trip.p)
    /\ trip.p \notin Dirs
    /\ defxs[trip.s].cwd = trip.A
    /\ cursor["defx"] = LowestLine(candidates, trip.p, defxs[trip.s].index)

Rejected == last.op = "cd" /\ last.raised = "RootChangeFailure"

\* C3: a cd whose root change the session rejects leaves the cursor history,
\* the selection list, the candidates and the buffers as they were, and the
\* failure reaches the caller.
C3_RejectedCdChangesNothing ==
    [][Rejected' => /\ defxs' = defxs
                    /\ selected_candidates' = selected_candidates
                    /\ candidates' = candidates
                    /\ buffer' = buffer]_vars

\* the rows expected of the session at position k: its root, then its
\* gathered descendants, all owned by it
Gathered(k) == gather_candidates(defxs[k], fs)
BlockLen(k) == 1 + Len(Gathered(k))
RECURSIVE Offset(_)
Offset(k) == IF k = 1 THEN 0 ELSE Offset(k - 1) + BlockLen(k - 1)
Rebuilt == last.op \in {"init", "redraw", "cd"} /\ last.queried

\* C4: after a rebuild _candidates is, session after session in index order,
\* the session's root row followed by its gathered rows in their order, each
\* row owned by that session; so there are at least as many rows as sessions,
\* and roots /a [/a/1, /a/2] and /b [/b/1] give /a, /a/1, /a/2, /b, /b/1.
C4_RebuildConcatenatesSessions ==
    Rebuilt =>
        /\ Len(candidates) = Offset(Len(defxs) + 1)
        /\ Len(candidates) >= Len(defxs)
        /\ \A k \in 1..Len(defxs) :
               /\ defxs[k].index = k - 1
               /\ candidates[Offset(k) + 1].action__path = defxs[k].cwd
               /\ \A i \in 1..BlockLen(k) :
                      candidates[Offset(k) + i].defx_index = defxs[k].index
               /\ \A i \in 1..Len(Gathered(k)) :
                      candidates[Offset(k) + 1 + i].action__path
                          = Gathered(k)[i].action__path
        /\ (/\ Len(defxs) = 2
            /\ defxs[1].cwd = "/a"
            /\ defxs[2].cwd = "/b"
            /\ fs = FileSet)
               => [i \in Rows |-> candidates[i].action__path]
                      = <<"/a", "/a/1", "/a/2", "/b", "/b/1">>

C4_Witness ==
    /\ ForcedRedraw
    /\ Rebuilt
    /\ Len(defxs) = 2
    /\ [i \in Rows |-> candidates[i].action__path]
           = <<"/a", "/a/1", "/a/2", "/b", "/b/1">>
    /\ [i \in Rows |-> candidates[i].defx_index] = <<0, 0, 0, 1, 1>>

Searched == last.op = "search_file"

\* C5: when search_file finds a line, the row at that line has the path and
\* the owner searched for and no lower line has both; when no row has both,
\* nothing is found and the cursor stays where it was.
C5_LocateFindsLowestOwnedRow ==
    Searched =>
        LET r == locate(candidates, last.path, last.index)
        IN  /\ r # 0 =>
                /\ get_cursor_candidate(candidates, r).action__path = last.path
                /\ get_cursor_candidate(candidates, r).defx_index = last.index
                /\ \A j \in 1..(r - 1) :
                       ~IsRow(candidates, j, last.path, last.index)
                /\ current = "defx" => cursor["defx"] = r
            /\ r = 0 <=>
                   \A j \in Rows : ~IsRow(candidates, j, last.path, last.index)
            /\ r = 0 => last.unmoved

C5_Witness ==
    /\ Searched
    /\ current = "defx"
    /\ \E r \in Rows :
           /\ IsRow(candidates, r, last.path, last.index)
           /\ cursor["defx"] = r
           /\ \E j \in 1..(r - 1) :
                  /\ candidates[j].action__path = last.path
                  /\ candidates[j].defx_index # last.index

AtOneBased(sel) ==
    LET ok == SelectSeq(sel, LAMBDA x : x \in Rows)
    IN  [i \in 1..Len(ok) |-> candidates[ok[i]]]
OwnedBy(rows, index) == SelectSeq(rows, LAMBDA c : c.defx_index = index)

\* C6, as stated: with no selection the result is the row at `line` if the
\* session owns it; with a selection it is the rows at the 1-based lines the
\* selection list holds that the session owns.
C6_SelectionHoldsLineNumbers ==
    \A line \in Rows, index \in DefxIndices :
        get_selected_candidates(candidates, selected_candidates, line, index)
            = [raised |-> "",
               value |-> IF selected_candidates = <<>>
                         THEN CursorOnly(line, index)
                         ELSE OwnedBy(AtOneBased(selected_candidates), index)]

\* the entries of the selection list whose row (entry + 1) session `index` owns
OwnedEntries(index) ==
    {i \in 1..Len(selected_candidates) :
        candidates[selected_candidates[i] + 1].defx_index = index}
NthOwnedEntry(index, n) ==
    CHOOSE i \in OwnedEntries(index) :
        Cardinality({j \in OwnedEntries(index) : j <= i}) = n

\* C6, amended: with no selection the result is the row at `line` (a line of
\* the sequence) if the session owns it, else empty; with a selection the
\* entries are 0-based indices and the result is the rows at lines entry + 1
\* that the session owns, in the order of the selection list, whatever `line`.
C6_SelectionHoldsRowIndices ==
    \A index \in DefxIndices :
        /\ selected_candidates = <<>> =>
               \A line \in Rows :
                   get_selected_candidates(candidates, <<>>, line, index)
                       = [raised |-> "", value |-> CursorOnly(line, index)]
        /\ selected_candidates # <<>> =>
               \A line \in 1..(Len(candidates) + 1) :
                   LET r == get_selected_candidates(candidates,
                                selected_candidates, line, index)
                   IN  /\ r.raised = ""
                       /\ Len(r.value) = Cardinality(OwnedEntries(index))
                       /\ \A n \in 1..Len(r.value) :
                              r.value[n] = candidates[
                                  selected_candidates[NthOwnedEntry(index, n)] + 1]

Dispatched == last.op = "do_action"

C6_Witness ==
    /\ Dispatched
    /\ Len(selected_candidates) = 2
    /\ candidates[selected_candidates[1] + 1].defx_index = 1
    /\ candidates[selected_candidates[2] + 1].defx_index = 0
    /\ last.invoked = <<0, 1>>

NonEmptyTargets(line, index) ==
    LET r == get_selected_candidates(candidates, selected_candidates, line, index)
    IN  r.raised = "" /\ r.value # <<>>

\* C7: do_action calls the Action Dispatcher once for every session whose
\* targets are not empty and for no other session, in ascending index order;
\* with two sessions, no selection and the cursor on a row of session 1 there
\* is one call, for session 1.
C7_DispatchSkipsEmptyTargets ==
    Dispatched =>
        /\ \A index \in DefxIndices :
               Cardinality({n \in 1..Len(last.invoked) : last.invoked[n] = index})
                   = IF NonEmptyTargets(last.line, index) THEN 1 ELSE 0
        /\ \A n \in 1..Len(last.invoked) :
               /\ last.invoked[n] \in DefxIndices
               /\ \A m \in 1..(n - 1) : last.invoked[m] < last.invoked[n]
        /\ (/\ Len(defxs) = 2
            /\ selected_candidates = <<>>
            /\ last.line \in Rows
            /\ candidates[last.line].defx_index = 1)
               => last.invoked = <<1>>

C7_Witness ==
    /\ Dispatched
    /\ Len(defxs) = 2
    /\ selected_candidates = <<>>
    /\ last.line \in Rows
    /\ candidates[last.line].defx_index = 1
    /\ last.invoked = <<1>>

\* C8: a cursor line past the last row is never a failure: no candidate is
\* there, get_selected_candidates is empty for every session when nothing is
\* selected, and do_action on a non-empty sequence returns without a call of
\* the Action Dispatcher and without raising.
C8_LinePastEndNeverFails ==
    (/\ Dispatched
     /\ last.line > Len(candidates)
     /\ candidates # <<>>
     /\ selected_candidates = <<>>)
        => /\ get_cursor_candidate(candidates, last.line) = EmptyDict
           /\ \A index \in DefxIndices :
                  get_selected_candidates(candidates, <<>>, last.line, index)
                      = [raised |-> "", value |-> <<>>]
           /\ last.raised = ""
           /\ last.invoked = <<>>

CdPastEnd == last.op = "cd" /\ last.beyond /\ defx_cd_ok(last.path)

\* C9: cd called with a cursor line past the last row writes nothing to the
\* session's cursor history and still changes the root, redraws and clears
\* the selection, without failing.
C9_CdPastEndStillNavigates ==
    [][CdPastEnd' =>
          /\ last'.raised = ""
          /\ defxs'[last'.s].cwd = last'.path
          /\ defxs'[last'.s].cursor_history = defxs[last'.s].cursor_history
          /\ selected_candidates' = <<>>]_vars

Redrawn == last.op = "redraw"

Navigated == last.op = "cd" /\ last.raised = ""

\* C11: after every cd whose root change succeeds the selection list is
\* empty, also when the redraw inside cd did nothing because another buffer
\* was current.
C11_CdAlwaysClearsSelection ==
    Navigated => selected_candidates = <<>>

C11_Witness ==
    /\ Navigated
    /\ current = "other"
    /\ ~last.queried
    /\ last.nsel > 0
    /\ defxs[last.s].cwd = last.path
    /\ selected_candidates = <<>>

\* C12: do_action called while the candidate list is empty invokes no action,
\* raises nothing and leaves candidates, selection, sessions, buffers and
\* cursors as they were, whatever the cursor line.
C12_DispatchOnEmptyIsNoOp ==
    [][(last'.op = "do_action" /\ candidates = <<>>)
       => /\ last'.raised = ""
          /\ last'.invoked = <<>>
          /\ UNCHANGED <<candidates, selected_candidates, defxs, buffer,
                         cursor, current, fs>>]_vars

C12_Witness ==
    /\ Dispatched
    /\ candidates = <<>>
    /\ buffer["defx"] = <<>>
    /\ last.line > Len(candidates)
    /\ last.invoked = <<>>
    /\ last.raised = ""

\* ------------------------------------------------- the column loop, stepwise
\* __init__ stopped before line 38, for every pair of column lengths
InitColumns ==
    \E lengths \in [1..Len(columns) -> 1..MaxWidth] :
        LET v == init_buffer(blank(<<"/a">>, FileSet))
        IN  /\ candidates = v.candidates
            /\ selected_candidates = v.selected
            /\ defxs = v.defxs
            /\ buffer = v.buffer
            /\ cursor = v.cursor
            /\ current = v.current
            /\ fs = v.fs
            /\ last = [op |-> "init_buffer"]
            /\ trip = NoTrip
            /\ ops = 0
            /\ colspan = columns_begin(lengths)

ColumnStep ==
    /\ colspan.k < Len(colspan.lengths)
    /\ colspan' = column_step(colspan)
    /\ UNCHANGED <<candidates, selected_candidates, defxs, buffer, cursor,
                   current, fs, last, trip, ops>>

NextColumns == ColumnStep

SpecColumns == InitColumns /\ [][NextColumns]_vars

RECURSIVE SumLengths(_, _)
SumLengths(lengths, n) ==
    IF n = 0 THEN 0 ELSE SumLengths(lengths, n - 1) + lengths[n]

\* C13: the spans the column loop assigns are contiguous in list order: the
\* first start is 1, every end is start + length - 1, every later start is
\* the previous end + 1, so span i is [w1+..+w(i-1)+1, w1+..+wi].
C13_ColumnSpansContiguous ==
    /\ Len(colspan.spans) = colspan.k
    /\ \A i \in 1..Len(colspan.spans) :
        /\ i = 1 => colspan.spans[i].start = 1
        /\ colspan.spans[i].end
              = colspan.spans[i].start + colspan.lengths[i] - 1
        /\ i > 1 => colspan.spans[i].start = colspan.spans[i - 1].end + 1
        /\ colspan.spans[i].start = SumLengths(colspan.lengths, i - 1) + 1
        /\ colspan.spans[i].end = SumLengths(colspan.lengths, i)

C13_Witness ==
    /\ colspan.k = Len(colspan.lengths)
    /\ colspan.k > 1
    /\ colspan.lengths[1] > 1
    /\ colspan.lengths[2] > colspan.lengths[1]
    /\ colspan.spans[2].start = colspan.lengths[1] + 1
    /\ colspan.spans[2].end = colspan.lengths[1] + colspan.lengths[2]

\* the row redraw captures at line 119, read in the state before the call
Captured == get_cursor_candidate(candidates, cursor["defx"])

\* C14: a redraw in the browser's buffer takes the row under the cursor before
\* it changes anything; afterwards the cursor is on the lowest line of the new
\* candidate list that has that row's path and owner, and when there is no
\* such line, or no row was under the cursor, redraw does not move the cursor:
\* it is where the replacement of the lines left it.
C14_RedrawRecoversCursor ==
    [][(Redrawn' /\ current = "defx") =>
          /\ last'.prev = Captured
          /\ IF /\ Captured # EmptyDict
                /\ \E line \in 1..Len(candidates') :
                      IsRow(candidates', line, Captured.action__path,
                            Captured.defx_index)
             THEN cursor'["defx"] = LowestLine(candidates',
                                               Captured.action__path,
                                               Captured.defx_index)
             ELSE cursor'["defx"] = Clamp(cursor["defx"], buffer'["defx"])
          /\ cursor'["other"] = cursor["other"]]_vars

C14_Witness ==
    /\ Redrawn
    /\ current = "defx"
    /\ last.is_force
    /\ last.prev # EmptyDict
    /\ cursor["defx"] # Clamp(last.from, buffer["defx"])
    /\ IsRow(candidates, cursor["defx"], last.prev.action__path,
             last.prev.defx_index)

\* the browser's cursor line a redraw called in this state leaves, given the
\* candidate list it ends with (lines 115-119 and 133-134)
AfterRedraw ==
    IF current # "defx" THEN cursor["defx"]
    ELSE IF /\ Captured # EmptyDict
            /\ \E line \in 1..Len(candidates') :
                  IsRow(candidates', line, Captured.action__path,
                        Captured.defx_index)
         THEN LowestLine(candidates', Captured.action__path,
                         Captured.defx_index)
         ELSE Clamp(cursor["defx"], buffer'["defx"])

\* the history entry cd looks up at line 164, NoPath when there is none
Remembered == defxs'[last'.s].cursor_history[last'.path]

\* C15: in cd the history lookup runs after redraw(True) has recovered the
\* cursor and overrides it: when the session's history has an entry p for the
\* new root and the rebuilt list has a row (p, s), the cursor ends on the
\* lowest such line, wherever the recovery had put it; when there is no entry
\* or no such row, the cursor ends where the redraw left it, and nothing is
\* raised.
C15_HistoryWinsOverRecovery ==
    [][(last'.op = "cd" /\ defx_cd_ok(last'.path) /\ ~last'.beyond) =>
          /\ last'.raised = ""
          /\ IF /\ Remembered # NoPath
                /\ \E line \in 1..Len(candidates') :
                      IsRow(candidates', line, Remembered,
                            defxs[last'.s].index)
             THEN last'.queried =>
                      cursor'["defx"] = LowestLine(candidates', Remembered,
                                                   defxs[last'.s].index)
             ELSE cursor'["defx"] = AfterRedraw]_vars

C15_Witness ==
    /\ Navigated
    /\ last.queried
    /\ last.path # last.old
    /\ defxs[last.s].cursor_history[last.path] # NoPath
    /\ IsRow(candidates, cursor["defx"],
             defxs[last.s].cursor_history[last.path], defxs[last.s].index)
    /\ last.prev # EmptyDict
    /\ \E line \in 1..Len(candidates) :
          /\ line # cursor["defx"]
          /\ IsRow(candidates, line, last.prev.action__path,
                   last.prev.defx_index)

\* the lines redraw writes for a candidate list (lines 125-131)
Rendering(cands) == [i \in 1..Len(cands) |-> get_columns_text(cands[i])]

\* C16: redraw(False) leaves _candidates and _selected_candidates as they
\* were and asks no session for its rows, even when the files changed since
\* the last rebuild; it writes the rendering of the existing candidates to
\* the browser's buffer and touches no other buffer.
C16_UnforcedRedrawKeepsCandidates ==
    [][(Redrawn' /\ ~last'.is_force) =>
          /\ candidates' = candidates
          /\ selected_candidates' = selected_candidates
          /\ defxs' = defxs
          /\ ~last'.queried
          /\ last'.raised = ""
          /\ current = "defx" => buffer'["defx"] = Rendering(candidates)
          /\ buffer'["other"] = buffer["other"]]_vars

C16_Witness ==
    /\ Redrawn
    /\ ~last.is_force
    /\ current = "defx"
    /\ candidates # Fresh
    /\ last.nsel > 0
    /\ Len(selected_candidates) = last.nsel
    /\ buffer["defx"] = Rendering(candidates)

\* session k's history has another value under key q after the step
HistoryWritten(k, q) ==
    defxs'[k].cursor_history[q] # defxs[k].cursor_history[q]

\* C17: a step changes a cursor history only if it is a cd; the entry cd
\* changes is the one of its own session under the root the session had
\* before the call, and its new value is the path of the row at the cursor
\* line passed in; all other entries of all sessions stay, and redraw and
\* do_action write none.
C17_CdWritesOneHistoryEntry ==
    [][/\ Len(defxs') = Len(defxs)
       /\ \A k \in 1..Len(defxs) :
             /\ DOMAIN defxs'[k].cursor_history = DOMAIN defxs[k].cursor_history
             /\ \A q \in DOMAIN defxs[k].cursor_history :
                   HistoryWritten(k, q) =>
                      /\ last'.op = "cd"
                      /\ k = last'.s
                      /\ q = last'.old
                      /\ last'.linepath # NoPath
                      /\ defxs'[k].cursor_history[q] = last'.linepath]_vars

C17_Witness ==
    /\ Navigated
    /\ Len(defxs) > 1
    /\ last.path # last.old
    /\ defxs[last.s].cursor_history[last.old] = last.linepath
    /\ last.linepath \notin Dirs
    /\ \E q \in DOMAIN defxs[last.s].cursor_history :
          /\ q # last.old
          /\ defxs[last.s].cursor_history[q] # NoPath
    /\ \E k \in 1..Len(defxs) :
          /\ k # last.s
          /\ \A q \in DOMAIN defxs[k].cursor_history :
                defxs[k].cursor_history[q] = NoPath

\* -------------------------------------------- init_candidates called directly
\* redraw empties _selected_candidates before it calls init_candidates; a
\* caller of the method itself finds the selection as it is
InitCandidates ==
    LET v == init_candidates(View)
    IN  /\ Tick
        /\ Install(v)
        /\ last' = [op |-> "init_candidates", sel |-> selected_candidates,
                    raised |-> v.raised, queried |-> v.queried]
        /\ trip' = NoTrip

NextAggregator ==
    \/ \E x \in 0..(Len(candidates) - 1) : Select(x)
    \/ \E f \in FileSet : FsChange(f)
    \/ InitCandidates

SpecAggregator == Init /\ [][NextAggregator]_vars

Aggregated == last.op = "init_candidates"
StaleSelection ==
    \E j \in 1..Len(last.sel) : last.sel[j] + 1 > Len(Fresh)

\* C18: init_candidates run with a selection that holds an index past the end
\* of the list it has just built skips that index without failing, and the
\* rows with is_selected set are exactly those at the selected indices that
\* are in range.
C18_StaleSelectionIgnored ==
    (Aggregated /\ StaleSelection) =>
        /\ last.raised = ""
        /\ Len(candidates) = Len(Fresh)
        /\ \A i \in 1..Len(candidates) :
              candidates[i].is_selected
                  <=> \E j \in 1..Len(last.sel) : last.sel[j] + 1 = i

Constructed == last.op = "init"

\* the sessions, by position in _defxs, that own a row of path p
Holders(p) ==
    {k \in 1..Len(defxs) :
        \E line \in 1..Len(candidates) :
            IsRow(candidates, line, p, defxs[k].index)}
Highest(S) == CHOOSE k \in S : \A j \in S : j <= k

\* C20: View() given context.search = p calls search_file(p, index) for every
\* session in list order on the one cursor of the browser's window, so the
\* cursor ends on the line of p in the last session that shows p; when no
\* session shows p it is where redraw(True) left it, on line 1 of the new
\* buffer.
C20_SearchEndsOnLastHolder ==
    (Constructed /\ last.search # NoPath) =>
        IF Holders(last.search) # {}
        THEN cursor["defx"] =
                 LowestLine(candidates, last.search,
                            defxs[Highest(Holders(last.search))].index)
        ELSE cursor["defx"] = 1

C20_Witness ==
    /\ Constructed
    /\ last.search # NoPath
    /\ Cardinality(Holders(last.search)) > 1
    /\ IsRow(candidates, cursor["defx"], last.search,
             defxs[Len(defxs)].index)
    /\ \E line \in 1..(cursor["defx"] - 1) :
          candidates[line].action__path = last.search
====
